---- MODULE Spec2Model ----
(***************************************************************************)
(* A model of futile.py: DecimalFloat, Resistor and approximateResistor.   *)
(*                                                                         *)
(* Python floats are IEEE-754 binary64 numbers, and several properties of  *)
(* the program depend on their rounding (8.2 * 10**2 is not 820.0), so a   *)
(* float is modelled bit-exactly as sign * m * 2^e with a 53-bit           *)
(* significand m, and every arithmetic operation is the exact result       *)
(* rounded to nearest, ties to even.  Significands do not fit TLC's 32-bit *)
(* integers, so naturals are sequences of 15-bit limbs, least significant  *)
(* limb first, without leading zero limbs (zero is the empty sequence).    *)
(*                                                                         *)
(* The variable arith selects how a float operation is read: "binary64"    *)
(* is what the interpreter computes; "exact" leaves every result unrounded *)
(* (a rational), the reading under which properties stated "in exact       *)
(* arithmetic" are checked.  The program text modelled is the same.        *)
(***************************************************************************)
EXTENDS Integers, Sequences, FiniteSets, TLC

VARIABLES
    arith,          \* "binary64" or "exact": the reading of float operations
    libm,           \* TRUE: math.log10 returns k for an argument within an ulp of 10^k
    pc,             \* the position in approximateResistor, or in a call under test
    value,          \* approximateResistor: value after line 188, a float
    tolerance,      \* approximateResistor: tolerance, a float
    output,         \* approximateResistor: output, a sequence of Resistors
    currentValue,   \* approximateResistor: currentValue (0, a Resistor or a DecimalFloat)
    idx,            \* the position of the for loop of line 193 in output
    difference,     \* approximateResistor: difference
    raised,         \* the exception raised and the statement that raised it
    param,          \* the argument of the call, a decimal text
    result,         \* the object a constructor call under test made
    label           \* str(result) of a Resistor under test

vars == <<arith, libm, pc, value, tolerance, output, currentValue, idx,
          difference, raised, param, result, label>>

\* F applied to the value of v: names an intermediate result (a local
\* variable of the code), computed once and before F uses it
With(v, F(_)) == CHOOSE r \in {F(w) : w \in {v}} : TRUE

\* ------------------------------------------------------------------------
\* Arbitrary-precision naturals (the carrier of float significands and of
\* Python's int in 10 ** exponent).

Limb == 2 ^ 15

RECURSIVE BNorm(_)
BNorm(a) ==
    IF a = <<>> THEN <<>>
    ELSE IF a[Len(a)] = 0 THEN BNorm(SubSeq(a, 1, Len(a) - 1))
    ELSE a

\* the natural n < 2^31
BOfInt(n) ==
    IF n = 0 THEN <<>>
    ELSE IF n < Limb THEN <<n>>
    ELSE IF n < Limb * Limb THEN <<n % Limb, n \div Limb>>
    ELSE <<n % Limb, (n \div Limb) % Limb, n \div (Limb * Limb)>>

BRest(a) == IF a = <<>> THEN <<>> ELSE Tail(a)
BLow(a) == IF a = <<>> THEN 0 ELSE Head(a)

RECURSIVE BAddC(_, _, _)
BAddC(a, b, c) ==
    IF a = <<>> /\ b = <<>> THEN (IF c = 0 THEN <<>> ELSE <<c>>)
    ELSE IF b = <<>> /\ c = 0 THEN a
    ELSE IF a = <<>> /\ c = 0 THEN b
    ELSE LET x == BLow(a) + BLow(b) + c
         IN  <<x % Limb>> \o BAddC(BRest(a), BRest(b), x \div Limb)

BAdd(a, b) == BAddC(a, b, 0)

RECURSIVE BSubC(_, _, _)
BSubC(a, b, c) ==
    IF b = <<>> /\ c = 0 THEN a
    ELSE LET x == BLow(a) - BLow(b) - c
         IN  IF x < 0 THEN <<x + Limb>> \o BSubC(BRest(a), BRest(b), 1)
             ELSE <<x>> \o BSubC(BRest(a), BRest(b), 0)

\* a - b for a >= b
BSub(a, b) == BNorm(BSubC(a, b, 0))

RECURSIVE BCmpAt(_, _, _)
BCmpAt(a, b, i) ==
    IF i = 0 THEN 0
    ELSE IF a[i] < b[i] THEN -1
    ELSE IF a[i] > b[i] THEN 1
    ELSE BCmpAt(a, b, i - 1)

\* -1, 0 or 1 as a < b, a = b, a > b
BCmp(a, b) ==
    IF Len(a) < Len(b) THEN -1
    ELSE IF Len(a) > Len(b) THEN 1
    ELSE BCmpAt(a, b, Len(a))

\* |a - b|
BDist(a, b) == IF BCmp(a, b) >= 0 THEN BSub(a, b) ELSE BSub(b, a)

RECURSIVE BMulSmallC(_, _, _)
BMulSmallC(a, k, c) ==
    IF a = <<>> THEN (IF c = 0 THEN <<>> ELSE <<c>>)
    ELSE LET x == Head(a) * k + c
         IN  <<x % Limb>> \o BMulSmallC(Tail(a), k, x \div Limb)

\* a * k for 0 <= k < Limb
BMulSmall(a, k) == IF k = 0 THEN <<>> ELSE BMulSmallC(a, k, 0)

BShiftLimbs(a, n) ==
    IF a = <<>> \/ n = 0 THEN a ELSE [i \in 1..n |-> 0] \o a

RECURSIVE BMul(_, _)
BMul(a, b) ==
    IF a = <<>> \/ b = <<>> THEN <<>>
    ELSE IF b = <<1>> THEN a
    ELSE IF a = <<1>> THEN b
    ELSE BAdd(BMulSmall(a, Head(b)), BShiftLimbs(BMul(a, Tail(b)), 1))

\* a * 2^n
BShl(a, n) == BShiftLimbs(BMulSmall(a, 2 ^ (n % 15)), n \div 15)

\* a * 2^n for n > 0, a otherwise
BShlPos(a, n) == IF n > 0 THEN BShl(a, n) ELSE a

RECURSIVE BitsOf(_)
BitsOf(n) == IF n = 0 THEN 0 ELSE 1 + BitsOf(n \div 2)

\* the number of binary digits of a
BitLen(a) == IF a = <<>> THEN 0 ELSE 15 * (Len(a) - 1) + BitsOf(a[Len(a)])

BOdd(a) == a # <<>> /\ Head(a) % 2 = 1

BLimbAt(a, i) == IF i >= 1 /\ i <= Len(a) THEN a[i] ELSE 0

\* the largest q in lo..hi with q * d <= r (lo * d <= r is given)
RECURSIVE BFindDigit(_, _, _, _)
BFindDigit(r, d, lo, hi) ==
    IF lo >= hi THEN lo
    ELSE LET mid == (lo + hi + 1) \div 2
         IN  IF BCmp(BMulSmall(d, mid), r) <= 0
             THEN BFindDigit(r, d, mid, hi)
             ELSE BFindDigit(r, d, lo, mid - 1)

\* the next quotient limb: bracketed by the leading limbs of r and d
\* (r < d * Limb), then searched
BQuotDigit(r, d) ==
    LET n == Len(d)
        top == BLimbAt(r, n + 1) * Limb + BLimbAt(r, n)
        hi == top \div d[n]
    IN  BFindDigit(r, d, top \div (d[n] + 1), IF hi > Limb - 1 THEN Limb - 1 ELSE hi)

\* Long division, one quotient limb per step, most significant first.
RECURSIVE BDivLoop(_, _, _)
BDivLoop(r, d, j) ==
    IF j < 0 THEN [q |-> <<>>, r |-> r]
    ELSE With(BShiftLimbs(d, j), LAMBDA dj :
         With(BQuotDigit(r, dj), LAMBDA qd :
         With(BDivLoop(BSub(r, BMulSmall(dj, qd)), d, j - 1), LAMBDA rest :
              [q |-> rest.q \o <<qd>>, r |-> rest.r])))

\* quotient and remainder of a by d, d > 0
BDivMod(a, d) ==
    IF BCmp(a, d) < 0 THEN [q |-> <<>>, r |-> a]
    ELSE With(BDivLoop(a, d, Len(a) - Len(d)), LAMBDA qr :
              [q |-> BNorm(qr.q), r |-> qr.r])

\* the quotient of a by d rounded to nearest, ties to even
BDivRound(a, d) ==
    With(BDivMod(a, d), LAMBDA qr :
    With(BCmp(BShl(qr.r, 1), d), LAMBDA c :
         IF c > 0 \/ (c = 0 /\ BOdd(qr.q)) THEN BAdd(qr.q, <<1>>) ELSE qr.q))

RECURSIVE BPow10(_)
BPow10(n) == IF n <= 0 THEN <<1>> ELSE BMulSmall(BPow10(n - 1), 10)

\* ------------------------------------------------------------------------
\* Numbers: [s |-> sign, m |-> numerator, d |-> denominator, e |-> exponent],
\* the value s * (m / d) * 2^e.  A binary64 float has d = 1 and
\* 2^52 <= m < 2^53 (or is zero); an exact number is any such quotient.

Two52 == BShl(<<1>>, 52)
Two53 == BShl(<<1>>, 53)

FZero == [s |-> 0, m |-> <<>>, d |-> <<1>>, e |-> 0]

\* the left shift of d that makes it end on a limb boundary and leaves the
\* numerator a left shift too (by shift - k), for k = k0 and k = k0 + 1
RoundShift(dbits, k0) ==
    LET need == IF k0 + 1 > 0 THEN k0 + 1 ELSE 0
    IN  need + ((15 - ((dbits + need) % 15)) % 15)

\* The float nearest to s * (n / d) * 2^x (n, d naturals, d > 0): round to
\* nearest, ties to even.  The quotient n / (d * 2^k) is brought into
\* [2^52, 2^53) and rounded; a carry to 2^53 moves to the next exponent.
RoundRat(s, n, d, x) ==
    IF n = <<>> \/ s = 0 THEN FZero
    ELSE With(BitLen(n) - BitLen(d) - 53, LAMBDA k0 :
         With(RoundShift(BitLen(d), k0), LAMBDA sd :
         With(BShl(d, sd), LAMBDA dk :
         With(IF BCmp(BShl(n, sd - k0), BShl(dk, 53)) >= 0 THEN k0 + 1 ELSE k0,
              LAMBDA k :
         With(BDivRound(BShl(n, sd - k), dk), LAMBDA q :
              IF q = Two53
              THEN [s |-> s, m |-> Two52, d |-> <<1>>, e |-> k + x + 1]
              ELSE [s |-> s, m |-> q, d |-> <<1>>, e |-> k + x])))))

\* The result of a float operation whose exact value is s * (n / d) * 2^x.
Rnd(s, n, d, x) ==
    IF arith = "exact"
    THEN (IF n = <<>> \/ s = 0 THEN FZero ELSE [s |-> s, m |-> n, d |-> d, e |-> x])
    ELSE RoundRat(s, n, d, x)

\* float(n) for a Python int n >= 0
FOfNat(n) == Rnd(1, n, <<1>>, 0)

\* the float 1.0
FOne ==
    IF arith = "exact" THEN [s |-> 1, m |-> <<1>>, d |-> <<1>>, e |-> 0]
    ELSE [s |-> 1, m |-> Two52, d |-> <<1>>, e |-> -52]

FNeg(a) == [a EXCEPT !.s = -a.s]

\* abs(a)
FAbs(a) == [a EXCEPT !.s = IF a.s = 0 THEN 0 ELSE 1]

\* a * b
FMul(a, b) == Rnd(a.s * b.s, BMul(a.m, b.m), BMul(a.d, b.d), a.e + b.e)

\* a / b for b # 0
FDiv(a, b) == Rnd(a.s * b.s, BMul(a.m, b.d), BMul(a.d, b.m), a.e - b.e)

\* |a| and |b| as numerators over one denominator and one exponent
FAligned(a, b) ==
    LET x == IF a.e < b.e THEN a.e ELSE b.e
    IN  [a |-> BShl(BMul(a.m, b.d), a.e - x),
         b |-> BShl(BMul(b.m, a.d), b.e - x),
         d |-> BMul(a.d, b.d), x |-> x]

\* a + b
FAdd(a, b) ==
    IF a.s = 0 THEN b
    ELSE IF b.s = 0 THEN a
    ELSE With(FAligned(a, b), LAMBDA al :
         With(BCmp(al.a, al.b), LAMBDA c :
              IF a.s # b.s /\ c = 0 THEN FZero
              ELSE Rnd(IF a.s = b.s \/ c > 0 THEN a.s ELSE b.s,
                       IF a.s = b.s THEN BAdd(al.a, al.b) ELSE BDist(al.a, al.b),
                       al.d, al.x)))

\* a - b
FSub(a, b) == FAdd(a, FNeg(b))

\* -1, 0 or 1 as a < b, a = b, a > b
FCmp(a, b) ==
    IF a.s # b.s THEN (IF a.s < b.s THEN -1 ELSE 1)
    ELSE IF a.s = 0 THEN 0
    ELSE With(FAligned(a, b), LAMBDA al : a.s * BCmp(al.a, al.b))

\* -1, 0 or 1 as the number a is below, at or above the rational n / d > 0
FCmpRat(a, n, d) ==
    IF a.s <= 0 THEN -1
    ELSE BCmp(BShlPos(BMul(a.m, d), a.e), BShlPos(BMul(n, a.d), -a.e))

RECURSIVE DigitsNat(_)
DigitsNat(ds) ==
    IF ds = <<>> THEN <<>>
    ELSE BAdd(BMulSmall(DigitsNat(SubSeq(ds, 1, Len(ds) - 1)), 10),
              BOfInt(ds[Len(ds)]))

\* float(text) for the decimal text s * digits / 10^p
FOfDecimal(t) == Rnd(t.s, DigitsNat(t.digits), BPow10(t.p), 0)

\* ------------------------------------------------------------------------
\* Python values: [raised, kind, mantissa, exponent].  kind "int" is the
\* int 0 and kind "float" a float held in mantissa; a DecimalFloat and a
\* Resistor hold _mantissa and _exponent (a Resistor those of its _value).
\* A call that raises yields the exception in raised and no kind.

PyInt0 == [raised |-> "", kind |-> "int", mantissa |-> FZero, exponent |-> 0]
PyFloatOf(f) == [raised |-> "", kind |-> "float", mantissa |-> f, exponent |-> 0]
PyRaise(exc) == [raised |-> exc, kind |-> "", mantissa |-> FZero, exponent |-> 0]

\* 10 ** exponent as a float operand: an int for exponent >= 0 (converted
\* by the float operation), the float pow(10.0, exponent) below 0.
Pow10F(exponent) == Rnd(1, BPow10(exponent), BPow10(-exponent), 0)

\* 10 ** exponent > x (an int is compared with a float exactly)
Pow10Gt(exponent, x) ==
    IF exponent >= 0 THEN FCmpRat(x, BPow10(exponent), <<1>>) < 0
    ELSE FCmp(Pow10F(exponent), x) > 0

RECURSIVE Log10Up(_, _)
Log10Up(x, k) ==
    IF FCmpRat(x, BPow10(k + 1), <<1>>) >= 0 THEN Log10Up(x, k + 1) ELSE k

RECURSIVE Log10Down(_, _)
Log10Down(x, j) ==
    IF FCmpRat(x, <<1>>, BPow10(j)) >= 0 THEN -j ELSE Log10Down(x, j + 1)

\* floor(log10(x)) of the number x > 0, exactly
FloorLog10(x) ==
    IF FCmpRat(x, <<1>>, <<1>>) >= 0 THEN Log10Up(x, 0) ELSE Log10Down(x, 1)

\* x = 10^k exactly
IsPow10(x, k) == FCmpRat(x, BPow10(k), BPow10(-k)) = 0

\* the binary exponent of 2^52 times the spacing of the floats next to the
\* integer k # 0 on the side away from zero (outward) or toward it
LogSpacing(k, outward) ==
    LET ak == IF k < 0 THEN -k ELSE k
        bits == BitsOf(ak) - 1
    IN  IF outward \/ ak # 2 ^ bits THEN 52 - bits ELSE 53 - bits

\* log10(x) lies less than one float spacing from the integer k # 0, where a
\* libm accurate to under an ulp may return k itself:
\* |x / 10^k - 1| * log10(e) < the spacing of floats on that side of k,
\* with a = x and b = 10^k over a common denominator and log10(e) < 0.4343.
NearPow10(x, k) ==
    /\ k # 0
    /\ With(BShlPos(BMul(x.m, BPow10(-k)), x.e), LAMBDA a :
       With(BShlPos(BMul(x.d, BPow10(k)), -x.e), LAMBDA b :
            /\ a # b
            /\ BCmp(BShl(BMulSmall(BDist(a, b), 4343),
                         LogSpacing(k, (BCmp(a, b) > 0) = (k > 0))),
                    BMul(b, BPow10(4))) < 0))

\* int(math.log10(x)) for x > 0: the logarithm truncated toward zero; with
\* libm set, an argument within an ulp of a power of ten yields its exponent.
Log10Int(x) ==
    With(FloorLog10(x), LAMBDA fl :
         IF IsPow10(x, fl) THEN fl
         ELSE IF arith = "binary64" /\ libm /\ NearPow10(x, fl + 1) THEN fl + 1
         ELSE IF arith = "binary64" /\ libm /\ NearPow10(x, fl) THEN fl
         ELSE IF fl >= 0 THEN fl
         ELSE fl + 1)

\* Decrement without the corrective decrement of lines 20-21
NoDecrement(exponent, x) == exponent

\* lines 20-21: if 10 ** exponent > float(param): exponent -= 1
Decrement(exponent, x) == IF Pow10Gt(exponent, x) THEN exponent - 1 ELSE exponent

\* DecimalFloat.__init__ on float(param) = x; math.log10 raises ValueError
\* (math domain error) for x <= 0
DecimalFloat(x) ==
    IF x.s <= 0 THEN PyRaise("ValueError")
    ELSE With(Decrement(Log10Int(x), x), LAMBDA exponent :
              [raised |-> "", kind |-> "DecimalFloat",
               mantissa |-> FDiv(x, Pow10F(exponent)), exponent |-> exponent])

\* DecimalFloat.__float__ (and Resistor.__float__, which forwards to it)
DecimalFloat_float(self) == FMul(self.mantissa, Pow10F(self.exponent))

\* float(v) of a Python value
PyFloat(v) ==
    IF v.kind = "int" THEN FZero
    ELSE IF v.kind = "float" THEN v.mantissa
    ELSE DecimalFloat_float(v)

\* the literals of Resistor.mantissas, in tenths
E12 == <<10, 12, 15, 18, 22, 27, 33, 39, 47, 56, 68, 82>>

mantissasBinary64 == [i \in 1..Len(E12) |-> RoundRat(1, BOfInt(E12[i]), <<10>>, 0)]
mantissasExact ==
    [i \in 1..Len(E12) |-> [s |-> 1, m |-> BOfInt(E12[i]), d |-> <<10>>, e |-> 0]]

\* Resistor.mantissas: the floats the literals 1.0, 1.2, ..., 8.2 denote
mantissas == IF arith = "exact" THEN mantissasExact ELSE mantissasBinary64

\* Resistor.exponents
exponents == 1..8

\* Rollover with >= in place of > on line 114
RolloverAtLargest(m) == FCmp(m, mantissas[Len(mantissas)]) >= 0

\* line 114: value._mantissa > Resistor.mantissas[-1]
Rollover(m) == FCmp(m, mantissas[Len(mantissas)]) > 0

\* FirstMantissa rounding down: the last of mantissas at or below m
RECURSIVE LastMantissa(_, _)
LastMantissa(m, i) ==
    IF i > Len(mantissas) THEN 0
    ELSE IF i = Len(mantissas) \/ FCmp(mantissas[i + 1], m) > 0 THEN i
    ELSE LastMantissa(m, i + 1)

\* the for loop of Resistor.__init__: the first of mantissas at or above m
\* from position i on, 0 when the loop falls through
RECURSIVE FirstMantissa(_, _)
FirstMantissa(m, i) ==
    IF i > Len(mantissas) THEN 0
    ELSE IF FCmp(mantissas[i], m) >= 0 THEN i
    ELSE FirstMantissa(m, i + 1)

\* lines 117-123 on the mantissa and exponent left by lines 114-116; a loop
\* that falls through leaves a Resistor without _value (mantissa zero)
Snap(m, e) ==
    IF e \notin exponents THEN PyRaise("ValueError")
    ELSE With(FirstMantissa(m, 1), LAMBDA i :
              [raised |-> "", kind |-> "Resistor",
               mantissa |-> IF i = 0 THEN FZero ELSE mantissas[i],
               exponent |-> e])

\* Resistor.__init__ letting the int 0 through unconstructed
ResistorPassingZero(v) ==
    IF v.kind = "int" THEN v
    ELSE With(DecimalFloat(PyFloat(v)), LAMBDA val :
              IF val.raised # "" THEN val
              ELSE IF Rollover(val.mantissa)
                   THEN Snap(mantissas[1], val.exponent + 1)
              ELSE Snap(val.mantissa, val.exponent))

\* Resistor.__init__ on a Python value
Resistor(v) ==
    With(DecimalFloat(PyFloat(v)), LAMBDA val :
         IF val.raised # "" THEN val
         ELSE IF Rollover(val.mantissa) THEN Snap(mantissas[1], val.exponent + 1)
         ELSE Snap(val.mantissa, val.exponent))

\* 1 / a
FRecip(a) == FDiv(FOne, a)

\* DecimalFloat(1 / ((1 / a) + sign * (1 / b))), the body of __add__
\* (sign 1) and of __sub__ (sign -1); a division by 0.0 raises
Parallel(a, b, sign) ==
    IF a.s = 0 \/ b.s = 0 THEN PyRaise("ZeroDivisionError")
    ELSE With(FAdd(FRecip(a), IF sign > 0 THEN FRecip(b) ELSE FNeg(FRecip(b))),
              LAMBDA t :
              IF t.s = 0 THEN PyRaise("ZeroDivisionError")
              ELSE DecimalFloat(FRecip(t)))

\* Resistor.__add__(self, other): other == 0 holds of the int 0 only
Resistor_add(self, other) ==
    IF other.kind = "int" THEN self
    ELSE Parallel(PyFloat(self), PyFloat(other), 1)

\* Resistor.__sub__(self, other), called on the float value as self
Resistor_sub(self, other) ==
    With(PyFloat(self), LAMBDA a :
    With(PyFloat(other), LAMBDA b :
         IF FCmp(a, b) = 0 THEN PyInt0 ELSE Parallel(a, b, -1)))

\* ------------------------------------------------------------------------
\* str(float) and Resistor.__str__.  Text is a sequence of characters.

DigitChars == <<"0", "1", "2", "3", "4", "5", "6", "7", "8", "9">>

\* the decimal digits of a natural, most significant first
RECURSIVE BDigits(_)
BDigits(a) ==
    IF a = <<>> THEN <<>>
    ELSE With(BDivMod(a, <<10>>), LAMBDA qr :
              BDigits(qr.q) \o <<DigitChars[BLow(qr.r) + 1]>>)

\* the integer nearest to x * 10^q (ties to even), x > 0
RoundInt(x, q) ==
    BDivRound(BShlPos(BMul(x.m, BPow10(q)), x.e),
              BShlPos(BMul(x.d, BPow10(-q)), -x.e))

\* float(text) of the decimal n / 10^q
ParseScaled(n, q) == Rnd(1, BMul(n, BPow10(-q)), BPow10(q), 0)

\* repr picks the fewest significant digits (at most 17) that read back as
\* the same float; the result is the scale q of the digits RoundInt(x, q),
\* for x in [10^dp, 10^(dp+1)) and n digits tried first.
RECURSIVE ReprScale(_, _, _)
ReprScale(x, dp, n) ==
    IF n >= 17 \/ FCmp(ParseScaled(RoundInt(x, n - 1 - dp), n - 1 - dp), x) = 0
    THEN n - 1 - dp
    ELSE ReprScale(x, dp, n + 1)

RECURSIVE StripRight(_, _)
StripRight(t, ch) ==
    IF t # <<>> /\ t[Len(t)] = ch THEN StripRight(SubSeq(t, 1, Len(t) - 1), ch)
    ELSE t

RECURSIVE StripLeft(_, _)
StripLeft(t, ch) ==
    IF t # <<>> /\ Head(t) = ch THEN StripLeft(Tail(t), ch) ELSE t

\* text.strip(ch)
Strip(t, ch) == StripLeft(StripRight(t, ch), ch)

\* the digits ds of x * 10^q laid out in fixed notation, with at least one
\* digit after the point
FixedText(ds, q) ==
    IF q <= 0 THEN ds \o [i \in 1..(-q) |-> "0"] \o <<".", "0">>
    ELSE With(StripRight(SubSeq(ds, Len(ds) - q + 1, Len(ds)), "0"), LAMBDA frac :
              SubSeq(ds, 1, Len(ds) - q) \o <<".">>
                  \o (IF frac = <<>> THEN <<"0">> ELSE frac))

\* str(x) of a float 1 <= x < 10^16
FloatStr(x) ==
    With(ReprScale(x, FloorLog10(x), 1), LAMBDA q :
         FixedText(BDigits(RoundInt(x, q)), q))

\* text.replace(old, new) for single characters
Replace(text, old, new) ==
    [i \in 1..Len(text) |-> IF text[i] = old THEN new ELSE text[i]]

units == <<"R", "K", "M">>

\* Resistor.__str__; the list index raises IndexError from exponent 9 on
Resistor_str(self) ==
    IF self.exponent \div 3 + 1 > Len(units) THEN <<"IndexError">>
    ELSE Strip(Replace(FloatStr(FMul(self.mantissa,
                                     FOfNat(BPow10(self.exponent % 3)))),
                       ".", units[self.exponent \div 3 + 1]),
               "0")

\* ------------------------------------------------------------------------
\* Inputs.  A decimal text is [s, digits, p]: the number s * digits / 10^p.

Dec(s, digits, p) == [s |-> s, digits |-> digits, p |-> p]

\* the text of the standard value E12[i] / 10 * 10^e, e.g. "4700"
StandardText(i, e) ==
    Dec(1, <<E12[i] \div 10, E12[i] % 10>> \o [j \in 1..(e - 1) |-> 0], 0)

StandardTexts == {StandardText(i, e) : i \in 1..Len(E12), e \in exponents}

\* the value arguments of approximateResistor that are explored
Targets ==
    { Dec(1, <<1, 0, 0, 0>>, 0), Dec(1, <<1, 2, 3, 4>>, 0),
      Dec(1, <<4, 7, 0, 0>>, 0), Dec(1, <<1, 0, 0>>, 0), Dec(1, <<1, 0>>, 0),
      Dec(1, <<8, 2, 0>>, 0), Dec(1, <<2, 2, 0>>, 0), Dec(1, <<9>>, 0),
      Dec(1, <<5>>, 0), Dec(0, <<>>, 0), Dec(-1, <<3>>, 0),
      Dec(1, <<8, 2, 0, 0, 0, 0, 0, 0, 0>>, 0),
      Dec(1, <<9, 0, 0, 0, 0, 0, 0, 0, 0>>, 0), Dec(1, <<1, 1>>, 0),
      Dec(1, <<9, 9, 9>>, 0), Dec(1, <<1, 2, 3, 4>>, 2), Dec(1, <<5>>, 1) }

\* the tolerance arguments explored: 0.01 (the default), 0.05, 0, -0.01, 1e-17
Tolerances ==
    { Dec(1, <<1>>, 2), Dec(1, <<5>>, 2), Dec(0, <<>>, 0), Dec(-1, <<1>>, 2),
      Dec(1, <<1>>, 17) }

\* the longest output explored
MaxLen == 12

\* ------------------------------------------------------------------------
\* approximateResistor(param, tolerance), one action per statement.

NoRaise == [exc |-> "", at |-> ""]

\* AfterRaise with a handler that catches every exception
AfterRaiseCatchAll(exc) == "returned"

\* an exception raised inside the try block of lines 190-203: the handler
\* returns output for a ValueError, anything else leaves the function
AfterRaise(exc) == IF exc = "ValueError" THEN "returned" ELSE "raised"

\* Enter with line 189 moved inside the try block
EnterInsideTry ==
    /\ pc = "call"
    /\ \E v \in {FOfDecimal(param)} : \E r \in {Resistor(PyFloatOf(v))} :
          /\ value' = v
          /\ IF r.raised # ""
             THEN /\ raised' = [exc |-> r.raised, at |-> "init"]
                  /\ pc' = AfterRaise(r.raised)
                  /\ output' = output
             ELSE /\ output' = <<r>>
                  /\ pc' = "while"
                  /\ raised' = raised
    /\ UNCHANGED <<arith, libm, tolerance, currentValue, idx, difference,
                   param, result, label>>

\* lines 188-189, outside the try block
Enter ==
    /\ pc = "call"
    /\ \E v \in {FOfDecimal(param)} : \E r \in {Resistor(PyFloatOf(v))} :
          /\ value' = v
          /\ IF r.raised # ""
             THEN /\ raised' = [exc |-> r.raised, at |-> "init"]
                  /\ pc' = "raised"
                  /\ output' = output
             ELSE /\ output' = <<r>>
                  /\ pc' = "while"
                  /\ raised' = raised
    /\ UNCHANGED <<arith, libm, tolerance, currentValue, idx, difference,
                   param, result, label>>

\* lines 191-192
LoopHead ==
    /\ pc = "while"
    /\ currentValue' = PyInt0
    /\ idx' = 1
    /\ pc' = "for"
    /\ UNCHANGED <<arith, libm, value, tolerance, output, difference, raised,
                   param, result, label>>

\* lines 193-194, one iteration
FoldStep ==
    /\ pc = "for"
    /\ idx <= Len(output)
    /\ \E r \in {Resistor_add(output[idx], currentValue)} :
          IF r.raised # ""
          THEN /\ raised' = [exc |-> r.raised, at |-> "fold"]
               /\ pc' = AfterRaise(r.raised)
               /\ UNCHANGED <<currentValue, idx>>
          ELSE /\ currentValue' = r
               /\ idx' = idx + 1
               /\ pc' = IF idx = Len(output) THEN "if" ELSE "for"
               /\ raised' = raised
    /\ UNCHANGED <<arith, libm, value, tolerance, output, difference, param,
                   result, label>>

\* abs(float(cur) - val) / val < tol
WithinTolerance(cur, val, tol) ==
    FCmp(FDiv(FAbs(FSub(PyFloat(cur), val)), val), tol) < 0

\* lines 196-197
ToleranceTest ==
    /\ pc = "if"
    /\ IF value.s = 0
       THEN /\ raised' = [exc |-> "ZeroDivisionError", at |-> "if"]
            /\ pc' = AfterRaise("ZeroDivisionError")
       ELSE /\ pc' = IF WithinTolerance(currentValue, value, tolerance)
                     THEN "returned" ELSE "sub"
            /\ raised' = raised
    /\ UNCHANGED <<arith, libm, value, tolerance, output, currentValue, idx,
                   difference, param, result, label>>

\* line 199
Subtract ==
    /\ pc = "sub"
    /\ \E r \in {Resistor_sub(PyFloatOf(value), currentValue)} :
          IF r.raised # ""
          THEN /\ raised' = [exc |-> r.raised, at |-> "sub"]
               /\ pc' = AfterRaise(r.raised)
               /\ difference' = difference
          ELSE /\ difference' = r
               /\ pc' = "append"
               /\ raised' = raised
    /\ UNCHANGED <<arith, libm, value, tolerance, output, currentValue, idx,
                   param, result, label>>

\* line 200
AppendResistor ==
    /\ pc = "append"
    /\ Len(output) < MaxLen
    /\ \E r \in {Resistor(difference)} :
          IF r.raised # ""
          THEN /\ raised' = [exc |-> r.raised, at |-> "append"]
               /\ pc' = AfterRaise(r.raised)
               /\ output' = output
          ELSE /\ output' = Append(output, r)
               /\ pc' = "while"
               /\ raised' = raised
    /\ UNCHANGED <<arith, libm, value, tolerance, currentValue, idx,
                   difference, param, result, label>>

\* the state at a call of approximateResistor
InitCall(mode, targets, tolerances) ==
    /\ arith = mode
    /\ libm \in (IF mode = "exact" THEN {FALSE} ELSE BOOLEAN)
    /\ pc = "call"
    /\ param \in targets
    /\ tolerance \in {FOfDecimal(t) : t \in tolerances}
    /\ value = FZero
    /\ output = <<>>
    /\ currentValue = PyInt0
    /\ idx = 0
    /\ difference = PyInt0
    /\ raised = NoRaise
    /\ result = PyInt0
    /\ label = <<>>

Init == InitCall("binary64", Targets, Tolerances)

Next ==
    \/ Enter
    \/ LoopHead
    \/ FoldStep
    \/ ToleranceTest
    \/ Subtract
    \/ AppendResistor

Spec == Init /\ [][Next]_vars

\* ------------------------------------------------------------------------
\* The constructors and __str__ called on their own: DecimalFloat(param),
\* Resistor(param) and str(Resistor(param)).

\* the arguments explored besides the standard values: values between
\* standard values, at and next to the ends of the range and the powers of
\* ten, below 1, zero and negative
OtherValues ==
    { Dec(1, <<1, 2, 3, 4>>, 0),
      Dec(1, <<9>>, 0),
      Dec(1, <<8, 3>>, 1),
      Dec(1, <<8, 2>>, 1),
      Dec(1, <<8, 2, 0, 0, 0, 0, 0, 0, 0, 0, 0, 0, 0, 0, 0, 1>>, 15),
      Dec(1, <<9, 9, 9>>, 2),
      Dec(1, <<5>>, 0),
      Dec(1, <<1>>, 0),
      Dec(1, <<5>>, 1),
      Dec(1, <<5>>, 2),
      Dec(1, <<1>>, 1),
      Dec(1, <<1>>, 6),
      Dec(1, <<1>>, 5),
      Dec(1, <<9, 9, 9, 9, 9, 9, 9, 9, 9, 9, 9, 9, 9, 9, 9, 9>>, 13),
      Dec(1, <<1, 0, 0, 0, 0, 0, 0, 0, 0, 0, 0, 0, 0, 0, 0, 0, 1>>, 13),
      Dec(1, <<9, 9, 9, 9, 9, 9, 9, 9, 9, 9, 9, 9, 9, 9, 9, 9>>, 11),
      Dec(1, <<8, 2, 0, 0, 0, 0, 0, 0, 1>>, 0),
      Dec(1, <<8, 2, 0, 0, 0, 0, 0, 0, 0, 0, 0, 0, 0, 0, 0, 1>>, 7),
      Dec(1, <<9, 0, 0, 0, 0, 0, 0, 0, 0>>, 0),
      Dec(1, <<1, 0, 0, 0, 0, 0, 0, 0, 0, 0>>, 0),
      Dec(1, <<1, 0, 0, 0, 0, 0, 0, 0, 0, 0, 0>>, 0),
      Dec(0, <<>>, 0),
      Dec(-1, <<3>>, 0),
      Dec(1, <<1, 2, 3, 4>>, 2),
      Dec(1, <<1, 2, 3, 4, 5, 6>>, 3),
      Dec(1, <<7, 2>>, 4) }

ValueInputs == StandardTexts \cup OtherValues

\* result = DecimalFloat(param)
NewDecimalFloat ==
    /\ pc = "new"
    /\ \E v \in {FOfDecimal(param)} :
          /\ value' = v
          /\ result' = DecimalFloat(v)
    /\ pc' = "DecimalFloat"
    /\ UNCHANGED <<arith, libm, tolerance, output, currentValue, idx,
                   difference, raised, param, label>>

\* result = Resistor(param)
NewResistor ==
    /\ pc = "new"
    /\ \E v \in {FOfDecimal(param)} :
          /\ value' = v
          /\ result' = Resistor(PyFloatOf(v))
    /\ pc' = "Resistor"
    /\ UNCHANGED <<arith, libm, tolerance, output, currentValue, idx,
                   difference, raised, param, label>>

\* label = str(result)
StrResistor ==
    /\ pc = "Resistor"
    /\ result.raised = ""
    /\ label' = Resistor_str(result)
    /\ pc' = "str"
    /\ UNCHANGED <<arith, libm, value, tolerance, output, currentValue, idx,
                   difference, raised, param, result>>

ValuesInit ==
    /\ arith = "binary64"
    /\ libm \in BOOLEAN
    /\ pc = "new"
    /\ param \in ValueInputs
    /\ tolerance = FZero
    /\ value = FZero
    /\ output = <<>>
    /\ currentValue = PyInt0
    /\ idx = 0
    /\ difference = PyInt0
    /\ raised = NoRaise
    /\ result = PyInt0
    /\ label = <<>>

ValuesNext ==
    \/ NewDecimalFloat
    \/ NewResistor
    \/ StrResistor

ValuesSpec == ValuesInit /\ [][ValuesNext]_vars

\* ------------------------------------------------------------------------
\* approximateResistor read in exact arithmetic.

ExactTargets ==
    { Dec(1, <<1, 0, 0, 0>>, 0), Dec(1, <<1, 2, 3, 4>>, 0),
      Dec(1, <<4, 7, 0, 0>>, 0), Dec(1, <<8, 2, 0>>, 0),
      Dec(1, <<2, 2, 0>>, 0), Dec(1, <<9>>, 0), Dec(1, <<1, 1>>, 0),
      Dec(1, <<9, 9, 9>>, 0), Dec(1, <<1, 2, 3, 4>>, 2),
      Dec(1, <<8, 2, 0, 0, 0, 0, 0, 0, 0>>, 0), Dec(1, <<5>>, 0) }

ExactTolerances == { Dec(1, <<1>>, 2), Dec(0, <<>>, 0), Dec(1, <<1>>, 17) }

ExactInit == InitCall("exact", ExactTargets, ExactTolerances)

ExactSpec == ExactInit /\ [][Next]_vars

\* ------------------------------------------------------------------------
\* Properties.

\* |a - b| / b in float operations
RelErr(a, b) == FDiv(FAbs(FSub(a, b)), b)

\* r is a constructed Resistor: an E12 mantissa and an exponent in 1..8
IsE12Resistor(r) ==
    /\ r.raised = ""
    /\ r.kind = "Resistor"
    /\ \E i \in 1..Len(mantissas) : r.mantissa = mantissas[i]
    /\ r.exponent \in 1..8

\* the parallel combination of out[1..n], folded as the for loop folds it
RECURSIVE Combined(_, _)
Combined(out, n) ==
    IF n = 0 THEN PyInt0 ELSE Resistor_add(out[n], Combined(out, n - 1))

\* 8.2e8
Top == BMulSmall(BPow10(7), 82)

\* 2^-51
Eps == [s |-> 1, m |-> Two52, d |-> <<1>>, e |-> -103]

C2_LeastStandardAtOrAbove ==
    (/\ pc = "Resistor"
     /\ FCmpRat(value, <<10>>, <<1>>) >= 0
     /\ FCmpRat(value, Top, <<1>>) <= 0)
    => /\ IsE12Resistor(result)
       /\ FCmp(PyFloat(result), value) >= 0
       /\ \A i \in 1..Len(E12) : \A e \in 1..8 :
             ~ /\ FCmpRat(value, BMulSmall(BPow10(e), E12[i]), <<10>>) <= 0
               /\ FCmpRat(PyFloat(result), BMulSmall(BPow10(e), E12[i]),
                          <<10>>) > 0

C4_LoopEndsByReturning == pc = "raised" => raised.at = "init"

\* C5: when the initial Resistor cannot be constructed from the target,
\* approximateResistor propagates the error from line 189 and returns no
\* sequence, empty or partial; a returned sequence is never empty.
C5_InitialFailurePropagates ==
    /\ (pc # "call" /\ Resistor(PyFloatOf(value)).raised # "")
       => pc = "raised" /\ raised.at = "init" /\ output = <<>>
    /\ pc = "returned" => output # <<>>

\* a call that failed with the range error of the initial Resistor
C5_InitialRangeError ==
    /\ pc = "raised"
    /\ raised = [exc |-> "ValueError", at |-> "init"]
    /\ value.s > 0

C7_StandardTargetGivesItself ==
    /\ (pc \in {"returned", "raised"} /\ param \in StandardTexts
            /\ tolerance.s > 0)
       => /\ pc = "returned"
          /\ Len(output) = 1
          /\ FCmp(PyFloat(output[1]), value) = 0
    /\ pc = "returned" => output[1] = Resistor(PyFloatOf(value))

\* the decimal digits of the integer n >= 0
RECURSIVE NatText(_)
NatText(n) ==
    IF n < 10 THEN <<DigitChars[n + 1]>>
    ELSE NatText(n \div 10) \o <<DigitChars[(n % 10) + 1]>>

\* the label of the standard value with tenths n of the scaled mantissa
NominalLabel(n, e) ==
    NatText(n \div 10) \o <<units[e \div 3 + 1]>>
        \o (IF n % 10 = 0 THEN <<>> ELSE <<DigitChars[(n % 10) + 1]>>)

\* C8: the label of every Resistor is its mantissa scaled by 10^(e mod 3)
\* in decimal digits, the point replaced by R (e in 1..2), K (3..5) or M
\* (6..8), a zero fractional digit removed and nothing else removed.
C8_LabelIsNominal ==
    pc = "str" =>
        \E i \in 1..Len(E12) :
            /\ result.mantissa = mantissas[i]
            /\ label = NominalLabel(E12[i] * 10 ^ (result.exponent % 3),
                                    result.exponent)

\* output is never empty once line 189 has run, holds constructed Resistors
\* only, and the sentinel 0 reaches line 200 only with a tolerance <= 0
C9_OutputInv ==
    /\ (pc # "call" /\ raised.at # "init") => output # <<>>
    /\ \A i \in 1..Len(output) : IsE12Resistor(output[i])
    /\ (pc = "append" /\ difference.kind = "int")
       => FCmp(tolerance, FZero) <= 0

\* line 200 on the sentinel 0 returns output as it is
C9_SentinelStep ==
    (pc = "append" /\ difference.kind = "int")
    => (pc' = "returned" /\ output' = output)

\* C9: in every state of approximateResistor and in every returned
\* sequence, output is non-empty and each element is a constructed Resistor
\* (E12 mantissa, exponent in 1..8); the sentinel 0 of Resistor.__sub__ is
\* never appended, arises only when tolerance <= 0, and then the sequence
\* is returned as it is.
C9_OutputHoldsResistorsOnly == [](C9_OutputInv) /\ [][C9_SentinelStep]_vars

\* Resistor.__sub__ has returned the sentinel 0
C9_SentinelReached == pc = "append" /\ difference.kind = "int"

\* C10: in exact arithmetic, the parallel combination of the resistors
\* collected is at every iteration >= the target, so the correction
\* 1/(1/target - 1/current) is strictly positive unless current equals the
\* target (never a negative number or a division by zero), and each
\* appended resistor is strictly larger than every resistor before it.
C10_NeverUndershoots ==
    /\ pc \in {"if", "sub", "append"}
       => FCmp(PyFloat(currentValue), value) >= 0
    /\ pc = "append"
       => IF difference.kind = "int"
          THEN FCmp(PyFloat(currentValue), value) = 0
          ELSE PyFloat(difference).s > 0
    /\ raised.at \notin {"fold", "if", "sub"}
    /\ \A i \in 1..Len(output) : \A j \in 1..Len(output) :
          i < j => FCmp(PyFloat(output[i]), PyFloat(output[j])) < 0

\* a positive correction computed with two or more resistors collected
C10_CorrectionAfterSeveral ==
    /\ arith = "exact"
    /\ pc = "append"
    /\ Len(output) >= 2
    /\ difference.kind = "DecimalFloat"

====
